---- MODULE Spec2Model ----
(***************************************************************************)
(* Lectio: corpus ingestion into a vector store (index_corpus_qdrant.py)   *)
(* and the semantic search endpoint (lectio_backend.py).                   *)
(*                                                                         *)
(* Spec       : ingestion runs of index_corpus_qdrant.main against one     *)
(*              persistent collection of the vector store.                 *)
(* SearchSpec : requests handled by lectio_backend.search.                 *)
(***************************************************************************)
EXTENDS FiniteSets, Integers, Sequences, TLC

\* ---------------------------------------------------------------- bounds
MaxSources == 2      \* text files in the corpus directory
MaxBatch   == 3      \* largest --batch-size
MaxDim     == 2      \* largest embedding dimension a model returns
MaxRuns    == 2      \* ingestion runs against the same collection
MaxQueryLen == 2     \* characters in a search query
MaxTopK    == 2      \* largest top_k requested
MaxScore   == 1      \* largest similarity score the store reports
MaxPieces  == 6      \* pieces (newline, space, letter, run of letters) a text body is made of

\* ------------------------------------------------------ program constants
MinParaLen == 40     \* iter_paragraphs keeps len(p) > 40

\* ------------------------------------------------------------- variables
VARIABLES
    coll,              \* the store's collection: [exists, size, points]
    corpus,            \* the text directory: sequence of files [readable, paras], paras the
                       \* lengths of the stripped segments of the file's text
    batch_size,        \* args.batch_size
    model_dim,         \* length of the vectors the configured embedding model returns
    pc,                \* position of main
    total_paragraphs,  \* main: total_paragraphs
    first_embedding,   \* main: first_embedding (None before the probe)
    dim,               \* main: dim
    next_para,         \* position of the `paragraphs` generator in the chunk stream (1-based, next to yield)
    point_id_counter,  \* main: next value of itertools.count()
    buffer,            \* main: buffer
    run,               \* number of ingestion runs started so far
    embed_calls,       \* embedding requests issued by the current run
    upsert_calls,      \* sizes of the upsert batches issued by the current run, in order
    flushed,           \* points written by upserts of the current run that completed
    failure,           \* "none", or the call of the current run that raised
    ensure_log,        \* what the ensure-collection step of the current run saw and did
    message            \* the closing message the current run printed, "none" before

ingest_vars == <<coll, corpus, batch_size, model_dim, pc, total_paragraphs,
                 first_embedding, dim, next_para, point_id_counter, buffer,
                 run, embed_calls, upsert_calls, flushed, failure, ensure_log,
                 message>>

VARIABLES
    req,               \* the SearchRequest being handled: [query, top_k]
    spc,               \* position of the search handler
    resp,              \* the HTTP response of the handler
    embedding_calls,   \* embedding requests issued for the current search request
    embed_outcome,     \* how the embedding request of the current search request ended
    store_calls,       \* store queries issued for the current search request
    store_limit,       \* the limit passed to the store query
    store_answered,    \* whether the store query returned a list of points
    points             \* the list of points the store returned

search_vars == <<req, spc, resp, embedding_calls, embed_outcome, store_calls,
                 store_limit, store_answered, points>>

VARIABLES
    file_text,         \* the text body of the file being extracted (line 40)
    epc,               \* position of the extraction of that file
    extracted          \* the (paragraph_index, paragraph_text) pairs yielded for it

extract_vars == <<file_text, epc, extracted>>

vars == <<ingest_vars, search_vars, extract_vars>>

None == [none |-> TRUE]

Range(s) == {s[i] : i \in 1..Len(s)}

\* ----------------------------------------------------------- the corpus
SeqsUpTo(S, n) == UNION {[1..k -> S] : k \in 0..n}

\* the texts of a corpus: empty, one short paragraph, one long paragraph, a
\* short one before a long one, two long ones
Files == {<<>>, <<MinParaLen>>, <<MinParaLen + 1>>, <<MinParaLen, MinParaLen + 1>>,
          <<MinParaLen + 1, MinParaLen + 1>>}

\* lines 39-43: a file is read, or read_text raises
Readable(paras) == [readable |-> TRUE, paras |-> paras]

Unreadable == [readable |-> FALSE, paras |-> <<MinParaLen + 1>>]

CorpusFiles == {Readable(paras) : paras \in Files} \cup {Unreadable}

Corpora == SeqsUpTo(CorpusFiles, MaxSources)

\* a filter that also keeps a paragraph of exactly the minimum length
KeepFromMin(n) == n >= MinParaLen

\* line 46: len(p) > 40
Keep(n) == n > MinParaLen

\* lines 46-49: the paragraphs of one file that are kept, numbered from 0
RECURSIVE KeptParas(_)
KeptParas(paras) ==
    IF paras = <<>> THEN <<>>
    ELSE LET rest == KeptParas(Tail(paras))
         IN IF Keep(Head(paras)) THEN <<Head(paras)>> \o rest ELSE rest

\* the positions (from 0) the kept paragraphs have among all segments of the file
RECURSIVE KeptPositions(_, _)
KeptPositions(paras, i) ==
    IF i > Len(paras) THEN <<>>
    ELSE IF Keep(paras[i]) THEN <<i - 1>> \o KeptPositions(paras, i + 1)
    ELSE KeptPositions(paras, i + 1)

\* a numbering that counts the skipped segments too
FileChunksRawIndex(f, paras) ==
    LET kept == KeptParas(paras)
        at   == KeptPositions(paras, 1)
    IN [i \in 1..Len(kept) |-> [path |-> f, idx |-> at[i], para |-> kept[i]]]

\* lines 48-49: enumerate(paragraphs)
FileChunks(f, paras) ==
    LET kept == KeptParas(paras)
    IN [i \in 1..Len(kept) |-> [path |-> f, idx |-> i - 1, para |-> kept[i]]]

\* a read failure that ends the enumeration instead of skipping the file
RECURSIVE iter_from_abort(_, _)
iter_from_abort(text_root, f) ==
    IF f > Len(text_root) \/ ~text_root[f].readable THEN <<>>
    ELSE FileChunks(f, text_root[f].paras) \o iter_from_abort(text_root, f + 1)

\* lines 31-49: the whole stream of (file_path, paragraph_index, paragraph_text);
\* a file that cannot be read is skipped (lines 39-43)
RECURSIVE iter_from(_, _)
iter_from(text_root, f) ==
    IF f > Len(text_root) THEN <<>>
    ELSE IF ~text_root[f].readable THEN iter_from(text_root, f + 1)
    ELSE FileChunks(f, text_root[f].paras) \o iter_from(text_root, f + 1)

iter_paragraphs(text_root) == iter_from(text_root, 1)

\* ------------------------------------------------------ the vector store
Dims == 1..MaxDim

NoCollection == [exists |-> FALSE, size |-> 0, points |-> {}]

\* qdrant: recreate_collection drops the collection and creates it empty
recreate_collection(size) == [exists |-> TRUE, size |-> size, points |-> {}]

\* qdrant: upsert is refused for a missing collection or a vector of the wrong size
upsert_accepted(c, batch) ==
    c.exists /\ \A i \in 1..Len(batch) : batch[i].vector.dim = c.size

\* qdrant: upsert writes or overwrites by id
upsert(c, batch) ==
    LET ids == {batch[i].id : i \in 1..Len(batch)}
    IN [c EXCEPT !.points = {p \in c.points : p.id \notin ids} \cup Range(batch)]

\* qdrant: CollectionInfo.vectors_count, the number of vectors stored (one per
\* point here); servers that no longer report it leave it None, which `or`
\* treats like 0
VectorsCountReports(c) == {Cardinality(c.points), 0}

\* ------------------------------------------------- index_corpus_qdrant.py
\* lines 78-79: what ensure_collection takes for the dimension of the collection
existing_dim(c, vectors_count) ==
    IF vectors_count # 0 THEN vectors_count ELSE c.size

\* lines 81-83: the test that makes ensure_collection return without recreating
ReuseCollection(existing, wanted) == existing = wanted

\* lines 68-89: ensure_collection; lookup_ok / recreate_ok are the outcomes of
\* the two store calls (FALSE: the call raised)
ensure_collection(c, d, vectors_count, lookup_ok, recreate_ok) ==
    IF ~lookup_ok \/ ~c.exists
    THEN [coll |-> c, raised |-> TRUE, recreated |-> FALSE]
    ELSE IF ReuseCollection(existing_dim(c, vectors_count), d)
    THEN [coll |-> c, raised |-> FALSE, recreated |-> FALSE]
    ELSE IF recreate_ok
    THEN [coll |-> recreate_collection(d), raised |-> FALSE, recreated |-> TRUE]
    ELSE [coll |-> c, raised |-> TRUE, recreated |-> FALSE]

NoEnsure == [called |-> FALSE, before |-> NoCollection, dim |-> 0, returned |-> FALSE,
             recreated |-> FALSE, fallback |-> FALSE, after |-> NoCollection]

IngestInit ==
    /\ coll = NoCollection
    /\ corpus \in Corpora
    /\ batch_size \in 1..MaxBatch
    /\ model_dim = 0
    /\ pc = "Idle"
    /\ total_paragraphs = 0
    /\ first_embedding = None
    /\ dim = 0
    /\ next_para = 1
    /\ point_id_counter = 0
    /\ buffer = <<>>
    /\ run = 0
    /\ embed_calls = 0
    /\ upsert_calls = <<>>
    /\ flushed = {}
    /\ failure = "none"
    /\ ensure_log = NoEnsure
    /\ message = "none"

Chunks == iter_paragraphs(corpus)

\* lines 138-157: a run starts, counts the paragraphs and stops when there are none
StartRun ==
    /\ pc \in {"Idle", "Done", "Failed"}
    /\ run < MaxRuns
    /\ run' = run + 1
    /\ \E d \in Dims : model_dim' = d
    /\ total_paragraphs' = Len(Chunks)
    /\ pc' = IF Len(Chunks) = 0 THEN "Done" ELSE "ProbingDimension"
    /\ first_embedding' = None
    /\ dim' = 0
    /\ next_para' = 1
    /\ point_id_counter' = 0
    /\ buffer' = <<>>
    /\ embed_calls' = 0
    /\ upsert_calls' = <<>>
    /\ flushed' = {}
    /\ failure' = "none"
    /\ ensure_log' = NoEnsure
    /\ message' = IF Len(Chunks) = 0 THEN "nothing to index" ELSE "none"
    /\ UNCHANGED <<coll, corpus, batch_size>>
    /\ UNCHANGED search_vars
    /\ UNCHANGED extract_vars

\* lines 52-65: the vector the embedding service returns for a text
get_embedding(text, call) == [dim |-> model_dim, text |-> text, call |-> call]

\* a probe failure that is swallowed: main goes on to the collection
ProbeFailureIgnored ==
    /\ pc' = "EnsuringCollection"
    /\ failure' = "embedding"

\* line 167: get_embedding raises and nothing catches it: the exception leaves main
ProbeFailed ==
    /\ pc' = "Failed"
    /\ failure' = "embedding"

\* lines 159-169: the first paragraph is pulled and embedded
ProbeDimension ==
    /\ pc = "ProbingDimension"
    /\ \E ok \in BOOLEAN :
         IF Len(Chunks) = 0
         THEN /\ pc' = "Done"
              /\ message' = "nothing to index"
              /\ UNCHANGED <<first_embedding, dim, next_para, failure, embed_calls>>
         ELSE IF ok
         THEN /\ first_embedding' = get_embedding(Chunks[1], embed_calls + 1)
              /\ dim' = first_embedding'.dim
              /\ next_para' = 2
              /\ pc' = "EnsuringCollection"
              /\ embed_calls' = embed_calls + 1
              /\ UNCHANGED <<failure, message>>
         ELSE /\ ProbeFailed
              /\ next_para' = 2
              /\ embed_calls' = embed_calls + 1
              /\ UNCHANGED <<first_embedding, dim, message>>
    /\ UNCHANGED <<coll, corpus, batch_size, model_dim, total_paragraphs,
                   point_id_counter, buffer, run, upsert_calls, flushed, ensure_log>>
    /\ UNCHANGED search_vars
    /\ UNCHANGED extract_vars

\* lines 171-180: ensure_collection, and on any exception a plain recreate
EnsureCollection ==
    /\ pc = "EnsuringCollection"
    /\ \E vc \in VectorsCountReports(coll), lookup_ok \in BOOLEAN,
          recreate_ok \in BOOLEAN, fallback_ok \in BOOLEAN :
         LET r == ensure_collection(coll, dim, vc, lookup_ok, recreate_ok)
             log == [called |-> TRUE, before |-> coll, dim |-> dim,
                     returned |-> ~r.raised, recreated |-> r.recreated,
                     fallback |-> FALSE, after |-> r.coll]
         IN IF ~r.raised
            THEN /\ coll' = r.coll
                 /\ pc' = "Streaming"
                 /\ failure' = failure
                 /\ ensure_log' = log
            ELSE IF fallback_ok
            THEN /\ coll' = recreate_collection(dim)
                 /\ pc' = "Streaming"
                 /\ failure' = failure
                 /\ ensure_log' = [log EXCEPT !.fallback = TRUE,
                                              !.after = recreate_collection(dim)]
            ELSE /\ coll' = coll
                 /\ pc' = "Failed"
                 /\ failure' = "recreate"
                 /\ ensure_log' = log
    /\ UNCHANGED <<corpus, batch_size, model_dim, total_paragraphs, first_embedding,
                   dim, next_para, point_id_counter, buffer, run, embed_calls,
                   upsert_calls, flushed, message>>
    /\ UNCHANGED search_vars
    /\ UNCHANGED extract_vars

\* a flush that waits for one point more than batch_size
BatchFullLate(buf, size) == Len(buf) > size

\* line 209: the buffer is flushed once it holds batch_size points
BatchFull(buf, size) == Len(buf) >= size

\* lines 183-186: all_paragraphs has nothing left to yield
StreamExhausted == point_id_counter > 0 /\ next_para > Len(Chunks)

\* a point that takes the paragraph index for its id
MakePointByIndex(pid, chunk, emb) ==
    [id |-> chunk.idx, vector |-> emb,
     payload |-> [file |-> chunk.path, paragraph_index |-> chunk.idx, text |-> chunk.para]]

\* lines 201-207: the point built for a paragraph
MakePoint(pid, chunk, emb) ==
    [id |-> pid, vector |-> emb,
     payload |-> [file |-> chunk.path, paragraph_index |-> chunk.idx, text |-> chunk.para]]

\* an embedding failure that is swallowed: the paragraph is skipped, the loop goes on
EmbeddingSkipped ==
    /\ pc' = pc
    /\ failure' = "embedding"
    /\ UNCHANGED <<coll, point_id_counter, buffer, upsert_calls, flushed>>

\* lines 62-65, 197: get_embedding raises and nothing catches it: the exception leaves main
EmbeddingFailed ==
    /\ pc' = "Failed"
    /\ failure' = "embedding"
    /\ UNCHANGED <<coll, point_id_counter, buffer, upsert_calls, flushed>>

\* a stream that hands the first paragraph on without its embedding
ReuseProbeNever(first) == FALSE

\* lines 184, 196-199: the first paragraph comes with the probe embedding
\* (maybe_emb is not None) and is not embedded again
ReuseProbe(first) == first

\* lines 191-212: one iteration of the indexing loop
StreamParagraph ==
    /\ pc = "Streaming"
    /\ ~StreamExhausted
    /\ \E embed_ok \in BOOLEAN, upsert_ok \in BOOLEAN :
         LET first == point_id_counter = 0
             chunk == IF first THEN Chunks[1] ELSE Chunks[next_para]
             reuse == ReuseProbe(first)
             emb   == IF reuse THEN first_embedding
                      ELSE get_embedding(chunk, embed_calls + 1)
             buf   == Append(buffer, MakePoint(point_id_counter, chunk, emb))
         IN /\ next_para' = IF first THEN next_para ELSE next_para + 1
            /\ embed_calls' = IF reuse THEN embed_calls ELSE embed_calls + 1
            /\ IF ~reuse /\ ~embed_ok
               THEN EmbeddingFailed
               ELSE /\ point_id_counter' = point_id_counter + 1
                    /\ IF ~BatchFull(buf, batch_size)
                       THEN /\ buffer' = buf
                            /\ UNCHANGED <<coll, pc, failure, upsert_calls, flushed>>
                       ELSE /\ upsert_calls' = Append(upsert_calls, Len(buf))
                            /\ IF upsert_ok /\ upsert_accepted(coll, buf)
                               THEN /\ coll' = upsert(coll, buf)
                                    /\ flushed' = flushed \cup Range(buf)
                                    /\ buffer' = <<>>
                                    /\ UNCHANGED <<pc, failure>>
                               ELSE /\ pc' = "Failed"
                                    /\ failure' = "upsert"
                                    /\ buffer' = buf
                                    /\ UNCHANGED <<coll, flushed>>
    /\ UNCHANGED <<corpus, batch_size, model_dim, total_paragraphs, first_embedding,
                   dim, run, ensure_log, message>>
    /\ UNCHANGED search_vars
    /\ UNCHANGED extract_vars

\* line 191: the loop ends when the stream is exhausted
EndOfStream ==
    /\ pc = "Streaming"
    /\ StreamExhausted
    /\ pc' = "Flushing"
    /\ UNCHANGED <<coll, corpus, batch_size, model_dim, total_paragraphs,
                   first_embedding, dim, next_para, point_id_counter, buffer, run,
                   embed_calls, upsert_calls, flushed, failure, ensure_log, message>>
    /\ UNCHANGED search_vars
    /\ UNCHANGED extract_vars

\* lines 214-218: the remaining partial buffer is flushed
FinalFlush ==
    /\ pc = "Flushing"
    /\ \E upsert_ok \in BOOLEAN :
         IF buffer = <<>>
         THEN /\ pc' = "Done"
              /\ message' = "complete"
              /\ UNCHANGED <<coll, upsert_calls, flushed, failure>>
         ELSE /\ upsert_calls' = Append(upsert_calls, Len(buffer))
              /\ IF upsert_ok /\ upsert_accepted(coll, buffer)
                 THEN /\ coll' = upsert(coll, buffer)
                      /\ flushed' = flushed \cup Range(buffer)
                      /\ pc' = "Done"
                      /\ message' = "complete"
                      /\ failure' = failure
                 ELSE /\ pc' = "Failed"
                      /\ failure' = "upsert"
                      /\ UNCHANGED <<coll, flushed, message>>
    /\ UNCHANGED <<corpus, batch_size, model_dim, total_paragraphs, first_embedding,
                   dim, next_para, point_id_counter, buffer, run, embed_calls,
                   ensure_log>>
    /\ UNCHANGED search_vars
    /\ UNCHANGED extract_vars

\* -------------------------------------------------------- lectio_backend.py
IsSpace(c) == c \in {" ", "\t", "\n"}

Chars == {" ", "\t", "a"}

Queries == SeqsUpTo(Chars, MaxQueryLen)

TopKs == -1..MaxTopK

\* str.strip(): leading and trailing whitespace removed
RECURSIVE lstrip(_)
lstrip(s) == IF s # <<>> /\ IsSpace(Head(s)) THEN lstrip(Tail(s)) ELSE s

RECURSIVE rstrip(_)
rstrip(s) == IF s # <<>> /\ IsSpace(s[Len(s)]) THEN rstrip(SubSeq(s, 1, Len(s) - 1)) ELSE s

strip(s) == rstrip(lstrip(s))

\* the emptiness test without the strip of line 89
QueryIsEmptyUnstripped(query) == query = <<>>

\* lines 89-90: query = req.query.strip(); `not query`
QueryIsEmpty(query) == strip(query) = <<>>

\* payload values as the store hands them back (JSON), "absent" for a missing key
Absent == [t |-> "absent", s |-> "", n |-> 0]
Null   == [t |-> "null", s |-> "", n |-> 0]
JStr(x) == [t |-> "str", s |-> x, n |-> 0]
JInt(n) == [t |-> "int", s |-> "", n |-> n]

Dict(file, idx, text) == [file |-> file, paragraph_index |-> idx, text |-> text]

EmptyDict == Dict(Absent, Absent, Absent)

\* point.payload is None
NoPayload == [file |-> Null, paragraph_index |-> Null, text |-> Null, none |-> TRUE]

\* the payloads a stored point may carry: none, empty, complete, index as a numeral, index null,
\* index not a number, file and text null, file missing
Payloads ==
    { NoPayload,
      EmptyDict,
      Dict(JStr("a.txt"), JInt(3), JStr("p")),
      Dict(JStr("a.txt"), JStr("7"), JStr("p")),
      Dict(JStr("a.txt"), Null, JStr("p")),
      Dict(JStr("a.txt"), JStr("x"), JStr("p")),
      Dict(Null, JInt(3), Null),
      Dict(Absent, JInt(3), JStr("p")) }

Scores == 0..MaxScore

ScoredPoints == [score : Scores, payload : Payloads]

Sorted(ps) == \A i \in 1..Len(ps) - 1 : ps[i].score >= ps[i + 1].score

\* qdrant: search returns at most `limit` points, best score first; a limit
\* below 1 yields nothing when the store does not refuse it
StoreAnswers(limit) ==
    IF limit < 1 THEN {<<>>}
    ELSE {ps \in SeqsUpTo(ScoredPoints, limit) : Sorted(ps)}

\* dict.get(key, default)
Get(payload, key, default) ==
    IF payload[key].t = "absent" THEN default ELSE payload[key]

\* str(x)
PyStr(x) == IF x.t = "null" THEN "None" ELSE x.s

Numerals == [n \in {"3", "7"} |-> IF n = "3" THEN 3 ELSE 7]

\* int(x): [raised, v]
PyInt(x) ==
    CASE x.t = "int" -> [raised |-> FALSE, v |-> x.n]
      [] x.t = "str" /\ x.s \in DOMAIN Numerals -> [raised |-> FALSE, v |-> Numerals[x.s]]
      [] OTHER -> [raised |-> TRUE, v |-> 0]

\* line 75: point.score or 0.0
ScoreOf(point) == IF point.score = 0 THEN 0 ELSE point.score

\* lines 72-79: point_to_result; the result, or raised when a conversion raises
point_to_result(point) ==
    LET payload == IF point.payload = NoPayload THEN EmptyDict ELSE point.payload
        index   == PyInt(Get(payload, "paragraph_index", JInt(0)))
    IN [raised |-> index.raised,
        result |-> [score |-> ScoreOf(point),
                    file |-> PyStr(Get(payload, "file", JStr(""))),
                    paragraph_index |-> index.v,
                    text |-> PyStr(Get(payload, "text", JStr("")))]]

\* lines 61-69: get_embedding of the backend; what the call raises, by outcome
\* of the request to the embedding service
EmbedOutcomes == {"ok", "http_status", "network", "no_field"}

backend_get_embedding(outcome) ==
    CASE outcome = "ok"          -> [raised |-> "none", status_code |-> 0]
      [] outcome = "http_status" -> [raised |-> "HTTPException", status_code |-> 502]
      [] outcome = "network"     -> [raised |-> "ConnectionError", status_code |-> 0]
      [] outcome = "no_field"    -> [raised |-> "KeyError", status_code |-> 0]

Failure(status) == [status |-> status, results |-> <<>>]

Success(results) == [status |-> 200, results |-> results]

\* the framework's answer to an exception that leaves the handler
Unhandled == Failure(500)

NoResponse == Failure(0)

\* the handler without the `except Exception` of lines 97-98
EmbeddingErrorUnwrapped(e) ==
    IF e.raised = "HTTPException" THEN Failure(e.status_code) ELSE Unhandled

\* lines 93-98: the response for an exception raised by get_embedding
EmbeddingError(e) ==
    IF e.raised = "HTTPException" THEN Failure(e.status_code) ELSE Failure(502)

\* lines 100-107: the response for an exception raised by client.search
StoreError == Failure(502)

\* a limit one above the requested top_k
SearchLimitOffByOne(r) == r.top_k + 1

\* line 104: the limit handed to the store
SearchLimit(r) == r.top_k

\* line 109: the results in the order of the points
MapPoints(ps) == [i \in 1..Len(ps) |-> point_to_result(ps[i])]

SearchIdle ==
    /\ req = [query |-> <<>>, top_k |-> 5]
    /\ spc = "idle"
    /\ resp = NoResponse
    /\ embedding_calls = 0
    /\ embed_outcome = "none"
    /\ store_calls = 0
    /\ store_limit = 0
    /\ store_answered = FALSE
    /\ points = <<>>

\* lines 87-91: a request arrives; an empty query is refused
SearchStart ==
    /\ spc \in {"idle", "responded"}
    /\ \E q \in Queries, k \in TopKs :
         /\ req' = [query |-> q, top_k |-> k]
         /\ IF QueryIsEmpty(q)
            THEN /\ resp' = Failure(400)
                 /\ spc' = "responded"
            ELSE /\ resp' = NoResponse
                 /\ spc' = "embedding"
    /\ embedding_calls' = 0
    /\ embed_outcome' = "none"
    /\ store_calls' = 0
    /\ store_limit' = 0
    /\ store_answered' = FALSE
    /\ points' = <<>>
    /\ UNCHANGED ingest_vars
    /\ UNCHANGED extract_vars

\* lines 93-98: the query is embedded
SearchEmbed ==
    /\ spc = "embedding"
    /\ embedding_calls' = embedding_calls + 1
    /\ \E outcome \in EmbedOutcomes :
         LET e == backend_get_embedding(outcome)
         IN /\ embed_outcome' = outcome
            /\ IF e.raised = "none"
               THEN /\ spc' = "searching"
                    /\ resp' = resp
               ELSE /\ spc' = "responded"
                    /\ resp' = EmbeddingError(e)
    /\ UNCHANGED <<req, store_calls, store_limit, store_answered, points>>
    /\ UNCHANGED ingest_vars
    /\ UNCHANGED extract_vars

\* lines 100-110: the store is queried and its points are mapped
SearchStore ==
    /\ spc = "searching"
    /\ store_calls' = store_calls + 1
    /\ store_limit' = SearchLimit(req)
    /\ spc' = "responded"
    /\ \E store_ok \in BOOLEAN :
         IF ~store_ok
         THEN /\ store_answered' = FALSE
              /\ points' = <<>>
              /\ resp' = StoreError
         ELSE \E ps \in StoreAnswers(SearchLimit(req)) :
                LET results == MapPoints(ps)
                IN /\ store_answered' = TRUE
                   /\ points' = ps
                   /\ resp' = IF \E i \in 1..Len(ps) : results[i].raised
                              THEN Unhandled
                              ELSE Success([i \in 1..Len(ps) |-> results[i].result])
    /\ UNCHANGED <<req, embedding_calls, embed_outcome>>
    /\ UNCHANGED ingest_vars
    /\ UNCHANGED extract_vars

\* the ingestion side at rest while requests are served
IngestIdle ==
    /\ coll = NoCollection
    /\ corpus = <<>>
    /\ batch_size = 1
    /\ model_dim = 0
    /\ pc = "Idle"
    /\ total_paragraphs = 0
    /\ first_embedding = None
    /\ dim = 0
    /\ next_para = 1
    /\ point_id_counter = 0
    /\ buffer = <<>>
    /\ run = 0
    /\ embed_calls = 0
    /\ upsert_calls = <<>>
    /\ flushed = {}
    /\ failure = "none"
    /\ ensure_log = NoEnsure
    /\ message = "none"

\* ------------------------------------- iter_paragraphs on the text of a file
\* str.split("\n\n") from position `start` on: the text up to the next
\* occurrence of the separator, then the split of what follows it
RECURSIVE split_from(_, _)
split_from(body, start) ==
    LET hits == {i \in start..Len(body) - 1 : body[i] = "\n" /\ body[i + 1] = "\n"}
    IN IF hits = {} THEN <<SubSeq(body, start, Len(body))>>
       ELSE LET i == CHOOSE h \in hits : \A j \in hits : h <= j
            IN <<SubSeq(body, start, i - 1)>> \o split_from(body, i + 2)

\* line 45: text.split("\n\n")
split_paragraphs(body) == split_from(body, 1)

\* the segments as split, without the strip
raw_paragraphs_unstripped(body) == split_paragraphs(body)

\* line 45: raw_paragraphs
raw_paragraphs(body) ==
    LET parts == split_paragraphs(body)
    IN [i \in 1..Len(parts) |-> strip(parts[i])]

\* line 46: paragraphs
RECURSIVE KeptTexts(_)
KeptTexts(paras) ==
    IF paras = <<>> THEN <<>>
    ELSE LET rest == KeptTexts(Tail(paras))
         IN IF Keep(Len(Head(paras))) THEN <<Head(paras)>> \o rest ELSE rest

\* lines 45-49: what iter_paragraphs yields for one file
paragraphs_of(body) ==
    LET kept == KeptTexts(raw_paragraphs(body))
    IN [i \in 1..Len(kept) |-> [idx |-> i - 1, para |-> kept[i]]]

\* the segment lengths by which a file stands in the corpus of an ingestion run
ParaLens(body) ==
    LET raw == raw_paragraphs(body)
    IN [i \in 1..Len(raw) |-> Len(raw[i])]

XRun(n) == [i \in 1..n |-> "x"]

Pieces == {<<"\n">>, <<" ">>, <<"x">>, XRun(MinParaLen)}

RECURSIVE Flatten(_)
Flatten(ps) == IF ps = <<>> THEN <<>> ELSE Head(ps) \o Flatten(Tail(ps))

Texts == {Flatten(ps) : ps \in SeqsUpTo(Pieces, MaxPieces)}

ExtractIdle ==
    /\ file_text = <<>>
    /\ epc = "idle"
    /\ extracted = <<>>

\* line 40: the text of a file has been read
ExtractInit ==
    /\ file_text \in Texts
    /\ epc = "read"
    /\ extracted = <<>>
    /\ IngestIdle
    /\ SearchIdle

\* lines 45-49: the paragraphs of the file are yielded
ExtractParagraphs ==
    /\ epc = "read"
    /\ extracted' = paragraphs_of(file_text)
    /\ epc' = "done"
    /\ UNCHANGED <<file_text, ingest_vars, search_vars>>

ExtractNext == ExtractParagraphs

ExtractSpec == ExtractInit /\ [][ExtractNext]_vars

SearchInit == SearchIdle /\ IngestIdle /\ ExtractIdle

SearchNext ==
    \/ SearchStart
    \/ SearchEmbed
    \/ SearchStore

SearchSpec == SearchInit /\ [][SearchNext]_vars

Init == IngestInit /\ SearchIdle /\ ExtractIdle

Next ==
    \/ StartRun
    \/ ProbeDimension
    \/ EnsureCollection
    \/ StreamParagraph
    \/ EndOfStream
    \/ FinalFlush

Spec == Init /\ [][Next]_vars

\* ============================================================== properties
Ids(ps) == {p.id : p \in ps}

\* the ensure-collection step of the current run found the collection present
\* with the requested / with another configured dimension
EnsuredSameDim ==
    ensure_log.called /\ ensure_log.before.exists /\ ensure_log.before.size = ensure_log.dim

EnsuredOtherDim ==
    ensure_log.called /\ ensure_log.before.exists /\ ensure_log.before.size # ensure_log.dim

\* C1: when the collection exists with the requested dimension, whatever the
\* number of points it holds, ensure_collection recreates nothing and leaves
\* the points as they were.
C1_EnsureIdempotent ==
    EnsuredSameDim =>
        /\ ~ensure_log.recreated
        /\ ensure_log.returned => ensure_log.after.points = ensure_log.before.points

\* C2: when the collection exists with another dimension than the requested
\* one, whatever the number of points it holds, the collection is empty after
\* the ensure step and before the next upsert.
C2_MismatchEmpties ==
    (EnsuredOtherDim /\ pc = "Streaming" /\ upsert_calls = <<>>) =>
        Cardinality(coll.points) = 0

\* C3: a run that ends well over an existing collection of the same dimension
\* appends: the points written have ids no earlier point has, every earlier
\* point is still there, and the count grows by the number of chunks ingested.
C3_RerunAppends ==
    (pc = "Done" /\ EnsuredSameDim) =>
        /\ Ids(flushed) \cap Ids(ensure_log.before.points) = {}
        /\ ensure_log.before.points \subseteq coll.points
        /\ Cardinality(coll.points) =
               Cardinality(ensure_log.before.points) + total_paragraphs

CeilDiv(n, b) == (n + b - 1) \div b

\* C5: a run that ends well over N >= 1 chunks with batch size B issues
\* ceil(N/B) upserts; all but the last carry B points, the last carries N mod B
\* (B when B divides N), and none is empty.
C5_UpsertBatches ==
    (pc = "Done" /\ total_paragraphs >= 1) =>
        LET N == total_paragraphs
            B == batch_size
            n == Len(upsert_calls)
        IN /\ n = CeilDiv(N, B)
           /\ \A i \in 1..n - 1 : upsert_calls[i] = B
           /\ upsert_calls[n] = IF N % B = 0 THEN B ELSE N % B
           /\ \A i \in 1..n : upsert_calls[i] > 0

C5_Witness ==
    /\ pc = "Done"
    /\ Len(upsert_calls) >= 2
    /\ total_paragraphs % batch_size # 0

\* the run failed on an embedding or upsert call after the ensure step
StreamingFailure ==
    pc = "Failed" /\ failure \in {"embedding", "upsert"} /\ ensure_log.called

\* the points of `base` after the batches `written` went over them
WrittenOver(base, written) == {p \in base : p.id \notin Ids(written)} \cup written

\* C6: an embedding or upsert failure while streaming puts the run in the
\* failed state; from then on the run issues no embedding call and no upsert;
\* the store holds what the ensure step left plus exactly the batches flushed
\* before the failure, so flushed points stay and buffered ones are not written.
C6_FailStop ==
    [][ /\ failure' # "none" => pc' = "Failed"
        /\ StreamingFailure' =>
               /\ flushed' \subseteq coll'.points
               /\ coll'.points = WrittenOver(ensure_log'.after.points, flushed')
        /\ (pc = "Failed" /\ run' = run) =>
               /\ embed_calls' = embed_calls
               /\ upsert_calls' = upsert_calls
               /\ coll' = coll ]_vars

C6_Witness ==
    StreamingFailure /\ flushed # {} /\ buffer # <<>>

\* the query holds nothing but whitespace
Blank(query) == \A i \in 1..Len(query) : IsSpace(query[i])

\* C4: a request with top_k < 1 is answered with a client error and reaches
\* neither the embedding service nor the store.
C4_TopKRejected ==
    (spc # "idle" /\ req.top_k < 1) =>
        /\ embedding_calls = 0
        /\ store_calls = 0
        /\ spc = "responded" /\ resp.status \in {400, 422}

\* the value a payload field maps to: itself when well formed, else the default
FieldOrDefault(payload, key) ==
    LET x == payload[key]
    IN IF key = "paragraph_index"
       THEN (IF x.t = "int" THEN x.n
             ELSE IF x.t = "str" /\ x.s \in DOMAIN Numerals THEN Numerals[x.s] ELSE 0)
       ELSE (IF x.t = "str" THEN x.s ELSE "")

\* C7: whatever list of points the store returns, the response is a success
\* with one result per point in the same order; absent or malformed payload
\* fields become "" / 0.
C7_DefensiveMapping ==
    (spc = "responded" /\ store_answered) =>
        /\ resp.status = 200
        /\ Len(resp.results) = Len(points)
        /\ \A i \in 1..Len(resp.results) :
             /\ resp.results[i].score = points[i].score
             /\ \A key \in {"file", "paragraph_index", "text"} :
                  resp.results[i][key] = FieldOrDefault(points[i].payload, key)

\* C8: a request whose query is empty or whitespace only, with any top_k, is
\* answered 400 and reaches neither the embedding service nor the store.
C8_EmptyQueryRejected ==
    (spc # "idle" /\ Blank(req.query)) =>
        /\ spc = "responded"
        /\ resp.status = 400
        /\ embedding_calls = 0
        /\ store_calls = 0

C8_Witness ==
    /\ spc = "responded"
    /\ Len(req.query) > 0
    /\ Blank(req.query)
    /\ req.top_k >= 1
    /\ resp.status = 400

EmbeddingFailures == {"http_status", "network", "no_field"}

\* C9: for a non-empty query, a failed embedding call (in any of its three
\* ways) or a failed store query ends the request with 502, and after a failed
\* embedding call the store is not queried.
C9_UpstreamFailure ==
    /\ embed_outcome \in EmbeddingFailures =>
           spc = "responded" /\ resp.status = 502 /\ store_calls = 0
    /\ (spc = "responded" /\ store_calls = 1 /\ ~store_answered) =>
           resp.status = 502

C9_Witness ==
    /\ spc = "responded"
    /\ ~Blank(req.query)
    /\ embed_outcome = "network"
    /\ resp.status = 502
    /\ store_calls = 0

\* C10: a successful search with top_k = k >= 1 returns at most k results with
\* non-increasing scores; k is the limit given to the store, and the results
\* keep the number and the order of the store's points.
C10_BoundedRanked ==
    (spc = "responded" /\ resp.status = 200 /\ req.top_k >= 1) =>
        /\ Len(resp.results) <= req.top_k
        /\ \A i \in 1..Len(resp.results) - 1 :
             resp.results[i].score >= resp.results[i + 1].score
        /\ store_limit = req.top_k
        /\ Len(resp.results) = Len(points)
        /\ \A i \in 1..Len(resp.results) : resp.results[i].score = points[i].score

C10_Witness ==
    /\ spc = "responded"
    /\ resp.status = 200
    /\ req.top_k >= 2
    /\ Len(resp.results) = req.top_k
    /\ resp.results[1].score > resp.results[2].score

\* ---- the segments of a text body, read off the text itself
SepAt(body, k) ==
    k >= 1 /\ k + 1 <= Len(body) /\ body[k] = "\n" /\ body[k + 1] = "\n"

AllSpace(body, a, b) == \A m \in a..b : IsSpace(body[m])

\* position i holds the first character of a trimmed segment: only whitespace
\* lies between it and the start of the text or a blank-line boundary
OpensSegment(body, i) ==
    /\ ~IsSpace(body[i])
    /\ i = 1 \/ IsSpace(body[i - 1])
    /\ \/ AllSpace(body, 1, i - 1)
       \/ \E k \in 1..i - 2 : SepAt(body, k) /\ AllSpace(body, k, i - 1)

\* position j holds the last character of a trimmed segment
ClosesSegment(body, j) ==
    /\ ~IsSpace(body[j])
    /\ j = Len(body) \/ IsSpace(body[j + 1])
    /\ \/ AllSpace(body, j + 1, Len(body))
       \/ \E k \in j + 1..Len(body) - 1 : SepAt(body, k) /\ AllSpace(body, j + 1, k + 1)

\* the non-empty trimmed segments, as <<first, last>> positions
Segments(body) ==
    LET opens  == {i \in 1..Len(body) : OpensSegment(body, i)}
        closes == {j \in 1..Len(body) : ClosesSegment(body, j)}
    IN {s \in opens \X closes :
          s[1] <= s[2] /\ \A k \in s[1]..s[2] - 1 : ~SepAt(body, k)}

SegLen(s) == s[2] - s[1] + 1

LongSegments(body) == {s \in Segments(body) : SegLen(s) > MinParaLen}

\* C12: the extractor yields exactly the trimmed segments longer than 40
\* characters, in the order of the text: none of 40 or fewer is yielded, none
\* longer is left out.
C12_ExactlyLongSegments ==
    epc = "done" =>
        LET long == LongSegments(file_text)
        IN /\ Len(extracted) = Cardinality(long)
           /\ \A n \in 1..Len(extracted) :
                /\ Len(extracted[n].para) > MinParaLen
                /\ \E s \in long :
                     /\ extracted[n].para = SubSeq(file_text, s[1], s[2])
                     /\ Cardinality({t \in long : t[1] < s[1]}) = n - 1
           /\ KeptParas(ParaLens(file_text)) =
                  [n \in 1..Len(extracted) |-> Len(extracted[n].para)]

C12_Witness ==
    /\ epc = "done"
    /\ \E n \in 1..Len(extracted) : Len(extracted[n].para) = MinParaLen + 1
    /\ \E s \in Segments(file_text) : SegLen(s) = MinParaLen

\* every readable file of the corpus holds only segments of 40 characters or fewer
AllShort(text_root) ==
    \A f \in 1..Len(text_root) :
        text_root[f].readable =>
            \A i \in 1..Len(text_root[f].paras) : text_root[f].paras[i] <= MinParaLen

\* C11: a corpus without a retained chunk makes the run report that there is
\* nothing to index and end without error, with no embedding call, no
\* collection lookup, no create or recreate and no upsert.
C11_NothingToIndex ==
    (run >= 1 /\ AllShort(corpus)) =>
        /\ pc = "Done"
        /\ message = "nothing to index"
        /\ failure = "none"
        /\ embed_calls = 0
        /\ ~ensure_log.called
        /\ upsert_calls = <<>>
        /\ coll = NoCollection

C11_Witness ==
    /\ run >= 1
    /\ pc = "Done"
    /\ message = "nothing to index"
    /\ \E f \in 1..Len(corpus) : corpus[f] = Readable(<<MinParaLen>>)

\* the number of segments of file f that are longer than 40 characters
LongCount(f) ==
    IF corpus[f].readable
    THEN Cardinality({i \in 1..Len(corpus[f].paras) : corpus[f].paras[i] > MinParaLen})
    ELSE 0

PointsOfFile(ps, f) == {p \in ps : p.payload.file = f}

\* C13: the chunks of a source with n retained chunks carry the indices
\* 0..n-1 in document order: skipped short segments leave no gap, and the
\* numbering starts again at 0 for every source.
C13_ContiguousIndices ==
    pc = "Done" =>
        \A f \in 1..Len(corpus) :
            LET ps == PointsOfFile(flushed, f)
            IN /\ Cardinality(ps) = LongCount(f)
               /\ {p.payload.paragraph_index : p \in ps} = 0..LongCount(f) - 1
               /\ \A p, q \in ps :
                    p.id < q.id => p.payload.paragraph_index < q.payload.paragraph_index

C13_Witness ==
    /\ pc = "Done"
    /\ Len(corpus) = 2
    /\ corpus[1] = Readable(<<MinParaLen + 1, MinParaLen + 1>>)
    /\ corpus[2] = Readable(<<MinParaLen, MinParaLen + 1>>)
    /\ Cardinality(flushed) = 3

\* C14: a file that cannot be read is skipped and nothing else: a run that
\* ends well has embedded and stored every chunk of every readable file,
\* wherever the unreadable one stands, and a run fails only on an embedding or
\* store call.
C14_UnreadableSkipped ==
    /\ pc = "Done" =>
           \A f \in 1..Len(corpus) : \A k \in 0..LongCount(f) - 1 :
               \E p \in coll.points :
                   /\ p \in flushed
                   /\ p.payload.file = f
                   /\ p.payload.paragraph_index = k
                   /\ p.vector.text.path = f /\ p.vector.text.idx = k
    /\ pc = "Failed" => failure \in {"embedding", "upsert", "recreate"}
    /\ failure # "none" => embed_calls + Len(upsert_calls) + (IF ensure_log.called THEN 1 ELSE 0) >= 1

C14_Witness ==
    /\ pc = "Done"
    /\ Len(corpus) = 2
    /\ ~corpus[1].readable
    /\ LongCount(2) = 2
    /\ Cardinality(coll.points) = 2

\* C15: a run that ends well over N >= 1 chunks has called the embedding
\* service N times, the k-th call for the k-th chunk of the stream; the vector
\* stored for the first chunk is the probe embedding, made before the
\* collection was looked up.
C15_OneEmbeddingPerChunk ==
    /\ ensure_log.called => (embed_calls >= 1 /\ first_embedding # None)
    /\ (pc = "Done" /\ total_paragraphs >= 1) =>
           /\ embed_calls = total_paragraphs
           /\ \A p \in flushed :
                /\ p.vector.call = p.id + 1
                /\ p.vector.text = Chunks[p.id + 1]
                /\ p.id = 0 => p.vector = first_embedding

C15_Witness ==
    /\ pc = "Done"
    /\ total_paragraphs >= 2
    /\ embed_calls = total_paragraphs
    /\ \E p \in coll.points : p.id = 0 /\ p.vector = first_embedding

Rank(state) ==
    CASE state = "Idle" -> 0
      [] state = "ProbingDimension" -> 1
      [] state = "EnsuringCollection" -> 2
      [] state = "Streaming" -> 3
      [] state = "Flushing" -> 4
      [] state = "Done" -> 5
      [] OTHER -> 6

\* C16: a run moves through ProbingDimension, EnsuringCollection, Streaming,
\* Flushing, Done in this order or ends Failed; the store is not touched
\* before the probe embedding succeeded, no upsert is issued before the ensure
\* step completed, and a run whose probe embedding fails ends Failed without
\* any store operation.
C16_PhaseOrder ==
    [][ /\ run' = run /\ pc' # pc =>
               pc' = "Failed" \/ Rank(pc') = Rank(pc) + 1
        /\ run' # run =>
               pc' = "ProbingDimension" \/ (pc' = "Done" /\ total_paragraphs' = 0)
        /\ ensure_log'.called => first_embedding' # None
        /\ upsert_calls' # <<>> =>
               ensure_log'.called /\ (ensure_log'.returned \/ ensure_log'.fallback)
        /\ (failure' = "embedding" /\ first_embedding' = None) =>
               /\ pc' = "Failed"
               /\ ~ensure_log'.called
               /\ upsert_calls' = <<>>
               /\ coll' = coll ]_vars

C16_Witness ==
    /\ pc = "Failed"
    /\ failure = "embedding"
    /\ first_embedding = None
    /\ coll.points # {}

\* the point the i-th chunk (from 0) of the stream must become
ExpectedPoint(i) ==
    LET chunk == iter_paragraphs(corpus)[i + 1]
    IN [id |-> i,
        vector |-> [dim |-> model_dim, text |-> chunk, call |-> i + 1],
        payload |-> [file |-> chunk.path, paragraph_index |-> chunk.idx,
                     text |-> chunk.para]]

\* C17: a run that ends well over N chunks into a collection that was empty
\* or absent leaves exactly N points, ids 0..N-1, the point with id i carrying
\* the embedding and the payload of the i-th chunk.
C17_ExactContents ==
    (pc = "Done" /\ total_paragraphs >= 1 /\ ensure_log.before.points = {}) =>
        /\ coll.points = {ExpectedPoint(i) : i \in 0..total_paragraphs - 1}
        /\ Cardinality(coll.points) = total_paragraphs

C17_Witness ==
    /\ pc = "Done"
    /\ total_paragraphs >= 3
    /\ ensure_log.before.exists
    /\ ensure_log.before.points = {}
    /\ Len(upsert_calls) >= 2

\* C18: while a run is streaming, the collection exists and its configured
\* dimension is the length of the probe embedding, whatever the collection
\* was before.
C18_DimensionEnsured ==
    pc = "Streaming" => (coll.exists /\ coll.size = dim)

\* C19: a run creates or recreates the collection only when the collection
\* does not exist or its configured dimension differs from the probe's; a
\* lookup that fails for another reason leaves an existing collection of the
\* same dimension and its points alone.
C19_RecreateOnlyWhenNeeded ==
    (ensure_log.called /\ (ensure_log.recreated \/ ensure_log.fallback)) =>
        (~ensure_log.before.exists \/ ensure_log.before.size # ensure_log.dim)

====
